---- MODULE Spec2Model ----
(***************************************************************************)
(* A model of toggl-discord.js: the daily Toggl -> Discord report script.  *)
(*                                                                         *)
(* Representation of JavaScript values                                     *)
(*   - a value that may be undefined/null is a sequence of length 0 or 1:  *)
(*     None is undefined/null, Some(v) is the value v;                     *)
(*   - an instant is [s, ms]: whole seconds since the Unix epoch and the   *)
(*     milliseconds within that second (the millisecond count of           *)
(*     Date.getTime() / DateTime.toMillis() is s * 1000 + ms, which does   *)
(*     not fit TLC's integers for dates of 2025);                          *)
(*   - a JavaScript number that may be NaN is [nan, val];                  *)
(*   - a Map is the sequence of its [key, value] pairs in insertion order, *)
(*     which is the order a JavaScript Map iterates in;                    *)
(*   - the system clock, as a function reads it, is the non-empty sequence *)
(*     of the readings its coming reads return, in order (a read past the  *)
(*     end returns the last reading again).                                *)
(***************************************************************************)
EXTENDS Integers, Sequences, FiniteSets, TLC

VARIABLES
    env,        \* process.env as read at lines 6-19
    now,        \* the latest reading of the system clock the process obtained (the
                \* reading at start before the first read); each Date.now() and
                \* DateTime.now() returns a reading of its own, never an earlier one
    pc,         \* where the process is: "load", "main", "awaitFetch", "awaitJson",
                \* "awaitErrorText", "awaitPost", "awaitPostErrorText", "exited"
                \* ("library" in FnSpec, where a function is called on its own)
    exitCode,   \* None while running, Some(0) or Some(1) once exited
    stdout,     \* what console.log printed, in order
    stderr,     \* what console.error printed, in order
    runDate,    \* None before parseRunDate returned, Some(civil day) after
    fetchLog,   \* the provider requests issued, in order: [dayStart, start_date, end_date]
    fetchResponse, \* None before the provider's answer settled, Some(response) after
    postLog,    \* the webhook requests issued, in order: [url, content]
    postResponse,  \* None before the webhook's answer settled, Some(response) after
    filtered,   \* None before filterEntriesForProject ran, Some(list) after
    report,     \* None before the report was built, Some([todayTags, todayTotal, message]) after
    call        \* the function call under study in FnSpec: its name, arguments and result

vars == <<env, now, pc, exitCode, stdout, stderr, runDate, fetchLog, fetchResponse,
          postLog, postResponse, filtered, report, call>>

-----------------------------------------------------------------------------
(* JavaScript values *)

None == <<>>
Some(v) == <<v>>
Val(o) == o[1]

Instant(sec, milli) == [s |-> sec, ms |-> milli]
UnixEpoch == Instant(0, 0)
Before(a, b) == a.s < b.s \/ (a.s = b.s /\ a.ms < b.ms)

\* Math.max(a.toMillis(), b.toMillis()) as an instant
MathMaxInstant(a, b) == IF Before(a, b) THEN b ELSE a

\* Math.max on integers
MathMax(a, b) == IF a >= b THEN a ELSE b

\* Math.floor((now - start) / 1000) for millisecond counts now and start
FloorSecondsBetween(t, start) == (t.s - start.s) + ((t.ms - start.ms) \div 1000)

\* Math.round(n / d) for integers n and d > 0: the nearest integer, halves up
MathRoundDiv(n, d) == (2 * n + d) \div (2 * d)

NaN == [nan |-> TRUE, val |-> 0]
Num(n) == [nan |-> FALSE, val |-> n]

\* a date string as the provider sends it: what new Date(str).getTime() makes of it
DateString(t) == [valid |-> TRUE, at |-> t]
BadDateString == [valid |-> FALSE, at |-> UnixEpoch]
DateGetTime(str) == IF str.valid THEN Some(str.at) ELSE None

\* a Map kept in insertion order
MapHas(m, k) == \E i \in 1..Len(m) : m[i].key = k
MapGet(m, k) == LET i == CHOOSE j \in 1..Len(m) : m[j].key = k IN m[i].value
MapSet(m, k, v) ==
    IF MapHas(m, k)
    THEN [i \in 1..Len(m) |-> IF m[i].key = k THEN [key |-> k, value |-> v] ELSE m[i]]
    ELSE Append(m, [key |-> k, value |-> v])

-----------------------------------------------------------------------------
(* The pure functions, lines 77-207 *)

\* the absent record handed to entryDurationSeconds
NullEntry == [null |-> TRUE]

\* Date.now(): the next reading of the clock, and the clock once it was read
DateNow(clock) == Head(clock)
Advance(clock) == IF Len(clock) > 1 THEN Tail(clock) ELSE clock

\* whether entryDurationSeconds(entry) gets as far as Date.now(), line 85
ReadsClock(entry) ==
    /\ entry # NullEntry
    /\ ~(entry.duration # None /\ Val(entry.duration) >= 0)
    /\ entry.start # None
    /\ DateGetTime(Val(entry.start)) # None
    /\ DateGetTime(Val(entry.start)) # Some(UnixEpoch)

\* the clock once entryDurationSeconds ran on an entry, on each entry of a list
ClockAfter(clock, entry) == IF ReadsClock(entry) THEN Advance(clock) ELSE clock
RECURSIVE ClockAfterAll(_, _)
ClockAfterAll(clock, entries) ==
    IF entries = <<>> THEN clock
    ELSE ClockAfterAll(ClockAfter(clock, Head(entries)), Tail(entries))

\* how many times entryDurationSeconds reads the clock over the entries of a list
RECURSIVE ReadsIn(_)
ReadsIn(entries) ==
    IF entries = <<>> THEN 0
    ELSE (IF ReadsClock(Head(entries)) THEN 1 ELSE 0) + ReadsIn(Tail(entries))

entryDurationSeconds(entry, clock) ==
    IF entry = NullEntry THEN 0
    ELSE IF entry.duration # None /\ Val(entry.duration) >= 0 THEN Val(entry.duration)
    ELSE LET start == IF entry.start # None
                      THEN DateGetTime(Val(entry.start))
                      ELSE Some(UnixEpoch)
         IN  IF start = None \/ start = Some(UnixEpoch)      \* !start: NaN or 0
             THEN 0
             ELSE MathMax(0, FloorSecondsBetween(DateNow(clock), Val(start)))

\* a faulty variant: the earlier revision, without the 5-minute minimum
roundWithoutMinimum(seconds) ==
    IF seconds <= 0 THEN 0
    ELSE MathRoundDiv(seconds, 300) * 300

roundToNearestFiveMinutes(seconds) ==
    IF seconds <= 0 THEN 0
    ELSE MathMax(300, MathRoundDiv(seconds, 300) * 300)

\* a % b of JavaScript for integers a and b > 0: the remainder has the sign of a
JSRemainder(a, b) == IF a >= 0 THEN a % b ELSE 0 - ((0 - a) % b)

formatDuration(totalSeconds) ==
    LET hours == totalSeconds \div 3600
        minutes == JSRemainder(totalSeconds, 3600) \div 60
        seconds == JSRemainder(totalSeconds, 60)
    IN  IF hours > 0 THEN [unit |-> "h", major |-> hours, padded |-> minutes]
        ELSE IF minutes > 0 THEN [unit |-> "m", major |-> minutes, padded |-> seconds]
        ELSE [unit |-> "s", major |-> seconds, padded |-> 0]

\* a faulty variant: an element goes in front of the ones with as many seconds,
\* as a sort that is not stable may leave it
RECURSIVE InsertBeforeEqual(_, _)
InsertBeforeEqual(sorted, x) ==
    IF sorted = <<>> THEN <<x>>
    ELSE IF Head(sorted).seconds <= x.seconds THEN <<x>> \o sorted
    ELSE <<Head(sorted)>> \o InsertBeforeEqual(Tail(sorted), x)

\* Array.prototype.sort((a, b) => b.seconds - a.seconds): a stable sort, so an
\* element goes in front of the first one with strictly fewer seconds
RECURSIVE InsertBySecondsDesc(_, _)
InsertBySecondsDesc(sorted, x) ==
    IF sorted = <<>> THEN <<x>>
    ELSE IF Head(sorted).seconds < x.seconds THEN <<x>> \o sorted
    ELSE <<Head(sorted)>> \o InsertBySecondsDesc(Tail(sorted), x)

RECURSIVE sortBySecondsDesc(_)
sortBySecondsDesc(list) ==
    IF list = <<>> THEN <<>>
    ELSE InsertBySecondsDesc(sortBySecondsDesc(SubSeq(list, 1, Len(list) - 1)),
                             list[Len(list)])

\* Array.isArray(entry.tags) ? entry.tags : []
TagsOf(entry) == IF entry.tags # None THEN Val(entry.tags) ELSE <<>>

\* the inner loop of summarizeByTag, lines 115-118
RECURSIVE AddToTags(_, _, _)
AddToTags(totals, tags, seconds) ==
    IF tags = <<>> THEN totals
    ELSE LET tag == Head(tags)
             t0 == IF MapHas(totals, tag) THEN totals ELSE MapSet(totals, tag, 0)
         IN  AddToTags(MapSet(t0, tag, MapGet(t0, tag) + seconds), Tail(tags), seconds)

\* the outer loop of summarizeByTag, lines 107-119
RECURSIVE SummarizeLoop(_, _, _)
SummarizeLoop(totals, entries, clock) ==
    IF entries = <<>> THEN totals
    ELSE LET entry == Head(entries)
             seconds == roundToNearestFiveMinutes(entryDurationSeconds(entry, clock))
             later == ClockAfter(clock, entry)
             tags == TagsOf(entry)
         IN  IF Len(tags) = 0
             THEN LET t0 == IF MapHas(totals, "(no label)") THEN totals
                            ELSE MapSet(totals, "(no label)", 0)
                  IN  SummarizeLoop(MapSet(t0, "(no label)", MapGet(t0, "(no label)") + seconds),
                                    Tail(entries), later)
             ELSE SummarizeLoop(AddToTags(totals, tags, seconds), Tail(entries), later)

summarizeByTag(entries, clock) ==
    LET totals == SummarizeLoop(<<>>, entries, clock)
    IN  sortBySecondsDesc([i \in 1..Len(totals) |->
                              [name |-> totals[i].key, seconds |-> totals[i].value]])

\* the reduce of totalRoundedSeconds from a running sum on, lines 127-131
RECURSIVE TotalLoop(_, _, _)
TotalLoop(sum, entries, clock) ==
    IF entries = <<>> THEN sum
    ELSE LET entry == Head(entries)
         IN  TotalLoop(sum + roundToNearestFiveMinutes(entryDurationSeconds(entry, clock)),
                       Tail(entries), ClockAfter(clock, entry))

totalRoundedSeconds(entries, clock) == TotalLoop(0, entries, clock)

\* the inner loop of groupEntriesByTag, lines 141-144
RECURSIVE PushUnderTags(_, _, _)
PushUnderTags(grouped, tags, entry) ==
    IF tags = <<>> THEN grouped
    ELSE LET tag == Head(tags)
             g0 == IF MapHas(grouped, tag) THEN grouped ELSE MapSet(grouped, tag, <<>>)
         IN  PushUnderTags(MapSet(g0, tag, Append(MapGet(g0, tag), entry)), Tail(tags), entry)

RECURSIVE GroupLoop(_, _)
GroupLoop(grouped, entries) ==
    IF entries = <<>> THEN grouped
    ELSE LET entry == Head(entries)
             tags == IF entry.tags # None /\ Len(Val(entry.tags)) > 0
                     THEN Val(entry.tags)
                     ELSE <<"(no label)">>
         IN  GroupLoop(PushUnderTags(grouped, tags, entry), Tail(entries))

groupEntriesByTag(entries) == GroupLoop(<<>>, entries)

\* entry.description || "No description"
DescriptionOf(entry) ==
    IF entry.description = None \/ entry.description = Some("")
    THEN "No description"
    ELSE Val(entry.description)

RECURSIVE DescriptionLoop(_, _, _)
DescriptionLoop(byDesc, entries, clock) ==
    IF entries = <<>> THEN byDesc
    ELSE LET entry == Head(entries)
             desc == DescriptionOf(entry)
             roundedSeconds == roundToNearestFiveMinutes(entryDurationSeconds(entry, clock))
             b0 == IF MapHas(byDesc, desc) THEN byDesc ELSE MapSet(byDesc, desc, 0)
         IN  DescriptionLoop(MapSet(b0, desc, MapGet(b0, desc) + roundedSeconds),
                             Tail(entries), ClockAfter(clock, entry))

aggregateByDescription(entries, clock) ==
    LET byDesc == DescriptionLoop(<<>>, entries, clock)
    IN  sortBySecondsDesc([i \in 1..Len(byDesc) |->
                              [description |-> byDesc[i].key, seconds |-> byDesc[i].value]])

\* TOGGL_PROJECT_ID is None (undefined) or Some(number)
filterEntriesForProject(entries, TOGGL_PROJECT_ID) ==
    LET list == IF entries = None THEN <<>> ELSE Val(entries)       \* entries || []
        IsProject(entry) == /\ entry.project_id # None
                            /\ ~Val(TOGGL_PROJECT_ID).nan
                            /\ Val(entry.project_id) = Val(TOGGL_PROJECT_ID).val
    IN  IF \/ TOGGL_PROJECT_ID = None                               \* !TOGGL_PROJECT_ID
           \/ Val(TOGGL_PROJECT_ID).nan
           \/ Val(TOGGL_PROJECT_ID).val = 0
        THEN list
        ELSE SelectSeq(list, IsProject)

\* the lines of one label group of the message, lines 189-194
BulletLines(aggregated) ==
    [i \in 1..Len(aggregated) |->
        [kind |-> "bullet", text |-> aggregated[i].description,
         duration |-> formatDuration(aggregated[i].seconds)]]

RECURSIVE TagLines(_, _, _)
TagLines(todayTags, grouped, clock) ==
    IF todayTags = <<>> THEN <<>>
    ELSE LET tag == Head(todayTags)
             entriesForTag == IF MapHas(grouped, tag.name) THEN MapGet(grouped, tag.name)
                              ELSE <<>>
             aggregated == aggregateByDescription(entriesForTag, clock)
         IN  <<[kind |-> "heading", text |-> tag.name]>>
             \o BulletLines(aggregated)
             \o TagLines(Tail(todayTags), grouped, ClockAfterAll(clock, entriesForTag))

\* The message as its header and body lines; the separator line is a run of "-"
\* as wide as the widest of them and carries nothing else.
buildDiscordMessage(entries, todayTags, todayLabel, todayTotal, clock) ==
    LET bodyLines ==
            IF Len(entries) = 0
            THEN <<[kind |-> "empty", text |-> "No entries yet"]>>
            ELSE LET lines == TagLines(todayTags, groupEntriesByTag(entries), clock)
                 IN  (IF Len(lines) > 0 THEN Append(lines, [kind |-> "blank"]) ELSE lines)
                     \o <<[kind |-> "total", duration |-> formatDuration(todayTotal)]>>
    IN  [header |-> todayLabel, body |-> bodyLines]

-----------------------------------------------------------------------------
(* Configuration, lines 6-36 *)

\* a string of process.env is truthy when set and not empty
Truthy(str) == str # None /\ str # Some("")

\* Number(str) on the strings the model configures
JSNumber(str) ==
    CASE str = "7" -> Num(7)
      [] str = "0" -> Num(0)
      [] OTHER -> NaN

TOGGL_PROJECT_ID(e) ==
    IF Truthy(e.TOGGL_PROJECT_ID) THEN Some(JSNumber(Val(e.TOGGL_PROJECT_ID))) ELSE None

\* a faulty variant: only "true" switches the dry run on
DryRunOnlyTrue(e) == e.DRY_RUN = Some("true")

DRY_RUN(e) == e.DRY_RUN = Some("1") \/ e.DRY_RUN = Some("true") \/ e.DRY_RUN = Some("yes")

\* MIN_ENTRY_DATE, 2025-12-04T00:00:00Z
MIN_ENTRY_DATE == Instant(1764806400, 0)

\* a faulty variant: the project id is not checked
ConfigErrorWithoutProjectCheck(e) ==
    IF ~Truthy(e.TOGGL_TOKEN) THEN Some([line |-> "Missing TOGGL_TOKEN environment variable"])
    ELSE IF ~Truthy(e.DISCORD_WEBHOOK)
         THEN Some([line |-> "Missing DISCORD_WEBHOOK environment variable"])
    ELSE None

\* the startup checks: the message printed before process.exit(1), or None
ConfigError(e) ==
    IF ~Truthy(e.TOGGL_TOKEN) THEN Some([line |-> "Missing TOGGL_TOKEN environment variable"])
    ELSE IF ~Truthy(e.DISCORD_WEBHOOK)
         THEN Some([line |-> "Missing DISCORD_WEBHOOK environment variable"])
    ELSE IF Truthy(e.TOGGL_PROJECT_ID) /\ Val(TOGGL_PROJECT_ID(e)).nan
         THEN Some([line |-> "Invalid TOGGL_PROJECT_ID environment variable; must be a number"])
    ELSE None

-----------------------------------------------------------------------------
(* The day window, lines 228-253.  A civil date of TIMEZONE is its day number *)
(* since 1970-01-01; America/New_York is at UTC-5 (EST) for every date the    *)
(* model uses (December 2025).                                                *)

\* the civil date of an instant in TIMEZONE: DateTime.now().setZone(TIMEZONE)
CivilDay(t) == (t.s - 18000) \div 86400

\* runDate.startOf("day") as an instant
StartOfDay(day) == Instant(day * 86400 + 18000, 0)

\* String.prototype.toLowerCase and trim on the strings the model configures
ToLowerCase(str) == CASE str = "Today" -> "today" [] OTHER -> str
Trim(str) == CASE str = " 2025-12-10 " -> "2025-12-10" [] OTHER -> str

\* DateTime.fromFormat(str, "yyyy-LL-dd", {zone}): the civil date, or None when invalid
FromFormat(str) ==
    CASE str = "2025-12-01" -> Some(20423)
      [] str = "2025-12-03" -> Some(20425)
      [] str = "2025-12-10" -> Some(20432)
      [] OTHER -> None

\* how many times parseRunDate reads the clock (DateTime.now()), lines 229-235
ParseReads(value) ==
    IF \/ ~Truthy(value)
       \/ ToLowerCase(Val(value)) = "yesterday"
       \/ ToLowerCase(Val(value)) = "today"
    THEN 1 ELSE 0

\* None stands for the thrown "Invalid RUN_DATE provided" error
parseRunDate(value, clock) ==
    IF ~Truthy(value) \/ ToLowerCase(Val(value)) = "yesterday"
    THEN Some(CivilDay(DateNow(clock)) - 1)
    ELSE IF ToLowerCase(Val(value)) = "today" THEN Some(CivilDay(DateNow(clock)))
    ELSE FromFormat(Trim(Val(value)))

\* the request getTimeEntries sends, lines 64-74
getTimeEntries(start, end) ==
    [dayStart |-> start,
     start_date |-> MathMaxInstant(start, MIN_ENTRY_DATE),
     end_date |-> end]

\* runDate.toFormat("LLL dd"): the month and the day of the month of a December 2025 date
ToFormatLabel(day) == [month |-> "Dec", day |-> day - 20422]

\* a faulty variant: an empty list counts as having entries
hasTodayEntriesAlways(list) == Len(list) >= 0

\* filteredTodayEntries.length > 0
hasTodayEntries(list) == Len(list) > 0

-----------------------------------------------------------------------------
(* The external collaborators.  A response is one of                          *)
(*   [kind |-> "json", body |-> list]   a 2xx answer whose body is a JSON list *)
(*   [kind |-> "unparsable"]            a 2xx answer whose body is empty or is *)
(*                                      not JSON: response.json() rejects      *)
(*   [kind |-> "nocontent"]             204                                   *)
(*   [kind |-> "error", status |-> n, text |-> t]                             *)
(*                                      a non-2xx answer (response.ok false);  *)
(*                                      t is Some(body), or None when the body *)
(*                                      cannot be read                         *)
(*   [kind |-> "reject"]                fetch itself rejected (network)        *)

\* what fetchJson returns on a 2xx answer, lines 60-61
fetchJson(resp) == IF resp.kind = "nocontent" THEN None ELSE Some(resp.body)

\* response.text().catch(() => "<unable to read response>"), lines 52-54 and 221-223
ErrorText(resp) == IF resp.text # None THEN Val(resp.text) ELSE "<unable to read response>"

\* the error console.error prints from the catch of main, line 283
FetchFailure(resp) ==
    IF resp.kind = "error"
    THEN [line |-> "Request failed", status |-> resp.status, errorText |-> ErrorText(resp)]
    ELSE IF resp.kind = "unparsable" THEN [line |-> "SyntaxError"]
    ELSE [line |-> "fetch failed"]
PostFailure(resp) ==
    IF resp.kind = "error"
    THEN [line |-> "Discord webhook failed", status |-> resp.status,
          errorText |-> ErrorText(resp)]
    ELSE [line |-> "fetch failed"]

\* encodeURIComponent on the strings the model configures
EncodeURIComponent(str) == CASE str = "42" -> "42" [] OTHER -> str

\* the URL postToDiscord sends to, lines 210-212
WebhookUrl(e) ==
    IF Truthy(e.DISCORD_THREAD_ID)
    THEN [base |-> Val(e.DISCORD_WEBHOOK),
          thread_id |-> Some(EncodeURIComponent(Val(e.DISCORD_THREAD_ID)))]
    ELSE [base |-> Val(e.DISCORD_WEBHOOK), thread_id |-> None]

\* how many times buildDiscordMessage reads the clock: once for each entry of each
\* label group that gets as far as Date.now(), lines 188-190
RECURSIVE GroupReads(_)
GroupReads(grouped) ==
    IF grouped = <<>> THEN 0
    ELSE ReadsIn(Head(grouped).value) + GroupReads(Tail(grouped))

\* how many times lines 265-274 of main read the clock
ReportReads(entries) == 2 * ReadsIn(entries) + GroupReads(groupEntriesByTag(entries))

\* lines 265-274 of main: the tag totals, the grand total and the message, each
\* computed on the readings the clock gives by then
BuildReport(entries, day, clock) ==
    LET todayTags == summarizeByTag(entries, clock)
        todayLabel == ToFormatLabel(day)
        afterTags == ClockAfterAll(clock, entries)
        todayTotal == totalRoundedSeconds(entries, afterTags)
        afterTotal == ClockAfterAll(afterTags, entries)
    IN  [todayTags |-> todayTags,
         todayTotal |-> todayTotal,
         message |-> buildDiscordMessage(entries, todayTags, todayLabel, todayTotal,
                                         afterTotal)]

-----------------------------------------------------------------------------
(* The inputs of a run *)

MaxFetched == 2

SeqsUpTo(S, n) == UNION {[1..k -> S] : k \in 0..n}

Entry(duration, start, tags, description, project) ==
    [duration |-> duration, start |-> start, tags |-> tags,
     description |-> description, project_id |-> project]

\* 2025-12-04T02:00:00.250Z and .750Z (21:00 of Dec 3 in TIMEZONE), and
\* 2025-12-04T08:00:00.250Z
ClockReadings ==
    {Instant(1764813600, 250), Instant(1764813600, 750), Instant(1764835200, 250)}

\* the clocks a step may see: the readings of its n reads, none earlier than the
\* reading before it; a step that does not read the clock sees the clock as it was
RECURSIVE ClocksFrom(_, _, _)
ClocksFrom(readings, from, n) ==
    IF n = 0 THEN {<<>>}
    ELSE UNION {{<<r>> \o c : c \in ClocksFrom(readings, r, n - 1)} :
                   r \in {x \in readings : ~Before(x, from)}}
Clocks(readings, from, n) == IF n = 0 THEN {<<from>>} ELSE ClocksFrom(readings, from, n)

\* a timer started at 2025-12-04T01:52:30.500Z and still running
RunningStart == Some(DateString(Instant(1764813150, 500)))
FinishedStart == Some(DateString(Instant(1764810000, 0)))

ProviderEntries ==
    { Entry(Some(610), FinishedStart, Some(<<"dev">>), Some("write"), Some(7)),
      Entry(Some(290), FinishedStart, None, None, Some(9)),
      Entry(Some(-1), RunningStart, Some(<<"ops">>), Some("review"), Some(7)),
      Entry(Some(290), FinishedStart, Some(<<"dev">>), Some("review"), None) }

Environments ==
    [TOGGL_TOKEN : {None, Some("token")},
     DISCORD_WEBHOOK : {None, Some("https://discord.test/webhook")},
     DISCORD_THREAD_ID : {None, Some("42")},
     TOGGL_PROJECT_ID : {None, Some("7"), Some("0"), Some("seven")},
     RUN_DATE : {None, Some("yesterday"), Some("Today"), Some("2025-12-01"),
                 Some("2025-12-03"), Some(" 2025-12-10 "), Some("12/10/2025")},
     DRY_RUN : {None, Some("1"), Some("true"), Some("yes"), Some("TRUE")}]

\* What the provider may answer, whatever the range asked for: the script sends the
\* range as it computed it and takes the answer as it comes.
ProviderResponses ==
    {[kind |-> "json", body |-> l] : l \in SeqsUpTo(ProviderEntries, MaxFetched)}
    \cup {[kind |-> "unparsable"], [kind |-> "nocontent"], [kind |-> "reject"],
          [kind |-> "error", status |-> 400, text |-> Some("Bad Request")],
          [kind |-> "error", status |-> 500, text |-> None]}

WebhookResponses ==
    {[kind |-> "nocontent"], [kind |-> "reject"],
     [kind |-> "error", status |-> 404, text |-> Some("Unknown Webhook")],
     [kind |-> "error", status |-> 500, text |-> None]}

NoCall == [fn |-> "none"]

-----------------------------------------------------------------------------
(* The run: module load (lines 6-36), then main (lines 249-286), a step for   *)
(* each stretch of code between two awaits.                                   *)

Init ==
    /\ env \in Environments
    /\ now \in ClockReadings
    /\ pc = "load"
    /\ exitCode = None
    /\ stdout = <<>>
    /\ stderr = <<>>
    /\ runDate = None
    /\ fetchLog = <<>>
    /\ fetchResponse = None
    /\ postLog = <<>>
    /\ postResponse = None
    /\ filtered = None
    /\ report = None
    /\ call = NoCall

\* lines 6-36: read the configuration, exit 1 when it is invalid
LoadConfig ==
    /\ pc = "load"
    /\ IF ConfigError(env) # None
       THEN /\ stderr' = Append(stderr, Val(ConfigError(env)))
            /\ exitCode' = Some(1)
            /\ pc' = "exited"
       ELSE /\ pc' = "main"
            /\ UNCHANGED <<stderr, exitCode>>
    /\ UNCHANGED <<env, now, stdout, runDate, fetchLog, fetchResponse, postLog,
                   postResponse, filtered, report, call>>

\* lines 251-254 and 64-74, 43-49: resolve the day window and send the provider request
MainStart ==
    /\ pc = "main"
    /\ \E clock \in Clocks(ClockReadings, now, ParseReads(env.RUN_DATE)) :
         LET parsed == parseRunDate(env.RUN_DATE, clock)
         IN  /\ now' = clock[Len(clock)]
             /\ IF parsed = None
                THEN /\ stderr' = Append(stderr, [line |-> "Invalid RUN_DATE provided"])
                     /\ exitCode' = Some(1)
                     /\ pc' = "exited"
                     /\ UNCHANGED <<runDate, fetchLog>>
                ELSE LET dayStart == StartOfDay(Val(parsed))
                         dayEnd == StartOfDay(Val(parsed) + 1)
                     IN  /\ runDate' = parsed
                         /\ fetchLog' = Append(fetchLog, getTimeEntries(dayStart, dayEnd))
                         /\ pc' = "awaitFetch"
                         /\ UNCHANGED <<stderr, exitCode>>
    /\ UNCHANGED <<env, stdout, fetchResponse, postLog, postResponse, filtered,
                   report, call>>

\* the catch of main, lines 282-285
Catch(error) ==
    /\ stderr' = Append(stderr, error)
    /\ exitCode' = Some(1)
    /\ pc' = "exited"

\* lines 256-281, from the value getTimeEntries resolved to up to the next await or
\* the end of main: filter, stop when nothing is left, build the report on the
\* readings the clock gives meanwhile, print it (dry run) or send it to the webhook
Resume(todayEntries) ==
    LET filteredTodayEntries == filterEntriesForProject(todayEntries, TOGGL_PROJECT_ID(env))
    IN  /\ filtered' = Some(filteredTodayEntries)
        /\ UNCHANGED stderr
        /\ IF ~hasTodayEntries(filteredTodayEntries)
           THEN /\ stdout' = Append(stdout,
                       [line |-> "No time entries for today; skipping Discord post."])
                /\ exitCode' = Some(0)
                /\ pc' = "exited"
                /\ UNCHANGED <<now, postLog, report>>
           ELSE \E clock \in Clocks(ClockReadings, now, ReportReads(filteredTodayEntries)) :
                  LET built == BuildReport(filteredTodayEntries, Val(runDate), clock)
                  IN  /\ now' = clock[Len(clock)]
                      /\ report' = Some(built)
                      /\ IF DRY_RUN(env)
                         THEN /\ stdout' = Append(stdout,
                                     [line |-> "[DRY RUN] Would post message:",
                                      message |-> built.message])
                              /\ exitCode' = Some(0)
                              /\ pc' = "exited"
                              /\ UNCHANGED postLog
                         ELSE /\ postLog' = Append(postLog,
                                     [url |-> WebhookUrl(env), content |-> built.message])
                              /\ pc' = "awaitPost"
                              /\ UNCHANGED <<stdout, exitCode>>

\* line 49 settles: fetch rejected (the catch of main), or the response is there;
\* a 204 makes fetchJson return null and main go on, any other response has its
\* body read first
FetchSettles ==
    /\ pc = "awaitFetch"
    /\ \E resp \in ProviderResponses :
         /\ fetchResponse' = Some(resp)
         /\ IF resp.kind = "reject"
            THEN /\ Catch(FetchFailure(resp))
                 /\ UNCHANGED <<now, stdout, postLog, filtered, report>>
            ELSE IF resp.kind = "error"
            THEN /\ pc' = "awaitErrorText"
                 /\ UNCHANGED <<now, stdout, stderr, exitCode, postLog, filtered, report>>
            ELSE IF resp.kind = "nocontent"
            THEN Resume(fetchJson(resp))
            ELSE /\ pc' = "awaitJson"
                 /\ UNCHANGED <<now, stdout, stderr, exitCode, postLog, filtered, report>>
    /\ UNCHANGED <<env, runDate, fetchLog, postResponse, call>>

\* lines 52-57: the body of a non-2xx answer was read, or could not be; fetchJson throws
ErrorTextSettles ==
    /\ pc = "awaitErrorText"
    /\ Catch(FetchFailure(Val(fetchResponse)))
    /\ UNCHANGED <<env, now, stdout, runDate, fetchLog, fetchResponse, postLog,
                   postResponse, filtered, report, call>>

\* line 61 settles: response.json() rejected (the catch of main), or gave the list
\* and main goes on
JsonSettles ==
    /\ pc = "awaitJson"
    /\ IF Val(fetchResponse).kind = "unparsable"
       THEN /\ Catch(FetchFailure(Val(fetchResponse)))
            /\ UNCHANGED <<now, stdout, postLog, filtered, report>>
       ELSE Resume(fetchJson(Val(fetchResponse)))
    /\ UNCHANGED <<env, runDate, fetchLog, fetchResponse, postResponse, call>>

\* line 214 settles: fetch rejected, the webhook accepted the message (line 280),
\* or it answered with a non-2xx status, whose body is read first
PostSettles ==
    /\ pc = "awaitPost"
    /\ \E resp \in WebhookResponses :
         /\ postResponse' = Some(resp)
         /\ IF resp.kind = "reject"
            THEN /\ Catch(PostFailure(resp))
                 /\ UNCHANGED stdout
            ELSE IF resp.kind = "error"
            THEN /\ pc' = "awaitPostErrorText"
                 /\ UNCHANGED <<stdout, stderr, exitCode>>
            ELSE /\ stdout' = Append(stdout, [line |-> "Posted Toggl summary to Discord"])
                 /\ exitCode' = Some(0)
                 /\ pc' = "exited"
                 /\ UNCHANGED stderr
    /\ UNCHANGED <<env, now, runDate, fetchLog, fetchResponse, postLog, filtered,
                   report, call>>

\* lines 221-224: the body of the webhook's non-2xx answer was read, or could not
\* be; postToDiscord throws
PostErrorTextSettles ==
    /\ pc = "awaitPostErrorText"
    /\ Catch(PostFailure(Val(postResponse)))
    /\ UNCHANGED <<env, now, stdout, runDate, fetchLog, fetchResponse, postLog,
                   postResponse, filtered, report, call>>

Next ==
    \/ LoadConfig
    \/ MainStart
    \/ FetchSettles
    \/ ErrorTextSettles
    \/ JsonSettles
    \/ PostSettles
    \/ PostErrorTextSettles

Spec == Init /\ [][Next]_vars

-----------------------------------------------------------------------------
(* The functions on their own: a behaviour is one call, on inputs drawn from *)
(* bounded sets, with a clock that gives each read of the call a reading.    *)

MaxEntries == 3
MaxSeconds == 1100
MinSeconds == 3

FnClockReadings == ClockReadings \cup {Instant(1764813601, 250)}

\* the entries handed to the aggregation functions
FnEntries ==
    { Entry(Some(610), FinishedStart, Some(<<"dev">>), Some("write"), None),
      Entry(Some(290), FinishedStart, Some(<<"dev">>), Some("review"), None),
      Entry(Some(290), FinishedStart, Some(<<"ops", "dev">>), Some("write"), None),
      Entry(Some(290), FinishedStart, None, None, None),
      Entry(Some(290), FinishedStart, Some(<<"(no label)">>), Some("review"), None),
      Entry(Some(-1), RunningStart, Some(<<"ops">>), Some(""), None),
      Entry(Some(0), FinishedStart, Some(<<>>), Some("review"), None) }

\* the records handed to entryDurationSeconds
DurationStarts ==
    {None, Some(BadDateString), Some(DateString(UnixEpoch)), RunningStart,
     Some(DateString(Instant(1764813601, 0)))}
DurationEntries ==
    {NullEntry} \cup
    {Entry(d, st, None, None, None) : d \in {None, Some(-1), Some(0), Some(290)},
                                      st \in DurationStarts}

FnInit ==
    /\ env = [TOGGL_TOKEN |-> None, DISCORD_WEBHOOK |-> None, DISCORD_THREAD_ID |-> None,
              TOGGL_PROJECT_ID |-> None, RUN_DATE |-> None, DRY_RUN |-> None]
    /\ now = Instant(1764813600, 250)
    /\ pc = "library"
    /\ exitCode = None
    /\ stdout = <<>>
    /\ stderr = <<>>
    /\ runDate = None
    /\ fetchLog = <<>>
    /\ fetchResponse = None
    /\ postLog = <<>>
    /\ postResponse = None
    /\ filtered = None
    /\ report = None
    /\ call = NoCall

FnUnchanged ==
    UNCHANGED <<env, now, pc, exitCode, stdout, stderr, runDate, fetchLog,
                fetchResponse, postLog, postResponse, filtered, report>>

CallRound ==
    /\ pc = "library" /\ call = NoCall
    /\ \E seconds \in (0 - MinSeconds)..MaxSeconds :
         call' = [fn |-> "roundToNearestFiveMinutes", seconds |-> seconds,
                  result |-> roundToNearestFiveMinutes(seconds)]
    /\ FnUnchanged

CallDuration ==
    /\ pc = "library" /\ call = NoCall
    /\ \E entry \in DurationEntries :
         \E clock \in Clocks(FnClockReadings, now, 1) :
             call' = [fn |-> "entryDurationSeconds", entry |-> entry, clock |-> clock,
                      result |-> entryDurationSeconds(entry, clock)]
    /\ FnUnchanged

CallSummarizeByTag ==
    /\ pc = "library" /\ call = NoCall
    /\ \E entries \in SeqsUpTo(FnEntries, MaxEntries) :
         \E clock \in Clocks(FnClockReadings, now, ReadsIn(entries)) :
             call' = [fn |-> "summarizeByTag", entries |-> entries, clock |-> clock,
                      result |-> summarizeByTag(entries, clock)]
    /\ FnUnchanged

CallAggregateByDescription ==
    /\ pc = "library" /\ call = NoCall
    /\ \E entries \in SeqsUpTo(FnEntries, MaxEntries) :
         \E clock \in Clocks(FnClockReadings, now, ReadsIn(entries)) :
             call' = [fn |-> "aggregateByDescription", entries |-> entries,
                      clock |-> clock,
                      result |-> aggregateByDescription(entries, clock)]
    /\ FnUnchanged

\* lines 265-274 of main on a filtered entry set
CallBuildReport ==
    /\ pc = "library" /\ call = NoCall
    /\ \E entries \in SeqsUpTo(FnEntries, MaxEntries) :
         \E clock \in Clocks(FnClockReadings, now, ReportReads(entries)) :
             call' = [fn |-> "buildReport", entries |-> entries, clock |-> clock,
                      result |-> BuildReport(entries, CivilDay(now), clock)]
    /\ FnUnchanged

FnNext ==
    CallRound \/ CallDuration \/ CallSummarizeByTag \/ CallAggregateByDescription
    \/ CallBuildReport

FnSpec == FnInit /\ [][FnNext]_vars

-----------------------------------------------------------------------------
(* What the claims are stated with *)

RECURSIVE SumOver(_, _)
SumOver(S, f) ==
    IF S = {} THEN 0
    ELSE LET x == CHOOSE y \in S : TRUE IN f[x] + SumOver(S \ {x}, f)

SetMin(S) == CHOOSE x \in S : \A y \in S : x <= y

\* whether the duration of an entry is taken from the clock: no duration >= 0,
\* and a start that is a valid instant other than the epoch
TakenFromClock(entry) ==
    /\ entry # NullEntry
    /\ (entry.duration = None \/ Val(entry.duration) < 0)
    /\ entry.start # None
    /\ Val(entry.start).valid
    /\ Val(entry.start).at # UnixEpoch

\* the reading a call over a list takes for its i-th entry: the clock is read once
\* for each entry whose duration is taken from it, in the order of the list
ReadingFor(es, clock, i) ==
    LET k == 1 + Cardinality({j \in 1..(i - 1) : TakenFromClock(es[j])})
    IN  clock[IF k <= Len(clock) THEN k ELSE Len(clock)]

\* the rounded duration of each entry of a list, by position, as a call over the
\* list reads it
RoundedOf(es, clock) ==
    [i \in 1..Len(es) |->
        roundToNearestFiveMinutes(entryDurationSeconds(es[i], <<ReadingFor(es, clock, i)>>))]

TagSet(entry) == {TagsOf(entry)[j] : j \in 1..Len(TagsOf(entry))}

\* the entries of a list that count under a label: those carrying the tag and,
\* under the sentinel, those with no tag
UnderLabel(es, name) ==
    {i \in 1..Len(es) : \/ name \in TagSet(es[i])
                        \/ name = "(no label)" /\ TagSet(es[i]) = {}}

\* where a label is first seen in a list: the first entry under it, then the
\* tag's place in that entry
FirstSeenLabel(es, name) ==
    LET i == SetMin(UnderLabel(es, name))
        tags == TagsOf(es[i])
        j == IF tags = <<>> THEN 1 ELSE SetMin({k \in 1..Len(tags) : tags[k] = name})
    IN  <<i, j>>

\* the order of first-seen places: by entry, then by place among the entry's tags
SeenBefore(p, q) == p[1] < q[1] \/ (p[1] = q[1] /\ p[2] < q[2])

FirstSeenDescription(es, d) == SetMin({i \in 1..Len(es) : DescriptionOf(es[i]) = d})

\* the seconds a printed duration of whole minutes stands for
ShownSeconds(duration) ==
    CASE duration.unit = "h" -> duration.major * 3600 + duration.padded * 60
      [] duration.unit = "m" -> duration.major * 60 + duration.padded
      [] OTHER -> duration.major

SuccessStopped == pc = "exited" /\ exitCode = Some(0) /\ stderr = <<>>

NothingToReport ==
    /\ SuccessStopped
    /\ stdout = <<[line |-> "No time entries for today; skipping Discord post."]>>

\* what the provider returned as a list (no body is no entry)
Fetched ==
    IF fetchResponse # None /\ Val(fetchResponse).kind = "json"
    THEN Val(fetchResponse).body
    ELSE <<>>

-----------------------------------------------------------------------------
(* The report pipeline *)

\* C1: whenever the entry set left after project filtering is empty (a provider
\* answer with no body included), the run has logged that, has exited with code 0
\* and has never called the webhook.
C1_EmptyReportSkipsWebhook ==
    /\ (filtered = Some(<<>>)) => (NothingToReport /\ postLog = <<>> /\ postResponse = None)
    /\ (fetchResponse = Some([kind |-> "nocontent"])) => filtered = Some(<<>>)

\* entries were fetched, none of them is of the configured project
C1_Witness ==
    /\ Len(Fetched) > 0
    /\ filtered = Some(<<>>)
    /\ pc = "exited"

\* C2: with DRY_RUN set to "1", "true" or "yes" the webhook is never called, and
\* once a non-empty filtered entry set exists the built message has been printed
\* and the run has exited with code 0.
C2_DryRunNeverPosts ==
    (env.DRY_RUN \in {Some("1"), Some("true"), Some("yes")}) =>
        /\ postLog = <<>>
        /\ pc \notin {"awaitPost", "awaitPostErrorText"}
        /\ postResponse = None
        /\ (filtered # None /\ filtered # Some(<<>>)) =>
               /\ SuccessStopped
               /\ report # None
               /\ stdout = <<[line |-> "[DRY RUN] Would post message:",
                              message |-> Val(report).message]>>
               /\ Val(report).message.body[Len(Val(report).message.body)].kind = "total"

C2_Witness ==
    /\ env.DRY_RUN = Some("1")
    /\ filtered # None /\ filtered # Some(<<>>)
    /\ Len(stdout) = 1

\* C3: the exit code is 1 once configuration validation failed (token missing,
\* webhook URL missing, project id not a number), once the run date proved
\* malformed, and once the provider or the webhook answered with a non-success
\* response; each of the two is called at most once; and a run that delivered the
\* message, printed it in dry run, or had nothing to report exits with code 0.
C3_ExitCodes ==
    LET badConfig == \/ env.TOGGL_TOKEN = None
                     \/ env.DISCORD_WEBHOOK = None
                     \/ env.TOGGL_PROJECT_ID = Some("seven")
        badRunDate == env.RUN_DATE = Some("12/10/2025")
        delivered == postResponse # None /\ Val(postResponse).kind = "nocontent"
        dryPrinted == Len(stdout) = 1 /\ stdout[1].line = "[DRY RUN] Would post message:"
        nothing == Len(stdout) = 1
                   /\ stdout[1].line = "No time entries for today; skipping Discord post."
    IN  /\ Len(fetchLog) <= 1 /\ Len(postLog) <= 1
        /\ (pc # "exited") = (exitCode = None)
        /\ (badConfig /\ pc # "load") =>
               (exitCode = Some(1) /\ fetchLog = <<>> /\ postLog = <<>>)
        /\ (badRunDate /\ pc \notin {"load", "main"}) =>
               (exitCode = Some(1) /\ fetchLog = <<>> /\ postLog = <<>>)
        /\ (fetchResponse # None /\ Val(fetchResponse).kind = "error") =>
               /\ pc \in {"awaitErrorText", "exited"}
               /\ pc = "exited" => exitCode = Some(1)
               /\ postLog = <<>>
        /\ (postResponse # None /\ Val(postResponse).kind = "error") =>
               /\ pc \in {"awaitPostErrorText", "exited"}
               /\ pc = "exited" => exitCode = Some(1)
        /\ (delivered \/ dryPrinted \/ nothing) => exitCode = Some(0)
        /\ exitCode = Some(1) => Len(stderr) = 1

\* the webhook refused the message: one call, no second one, exit code 1
C3_Witness ==
    /\ postResponse # None /\ Val(postResponse).kind = "error"
    /\ Val(postResponse).status = 404
    /\ Len(fetchLog) = 1 /\ Len(postLog) = 1
    /\ exitCode = Some(1)

\* C4: the start instant of every provider query is no earlier than the cutoff, and
\* a run whose clamped start lies past the window end produces no entry downstream
\* and, once the provider has answered its query (with a list, with no content or
\* with a status), has ended as "nothing to report", not as an error.
C4_ClampedWindow ==
    \A i \in 1..Len(fetchLog) :
        /\ ~Before(fetchLog[i].start_date, MIN_ENTRY_DATE)
        /\ Before(fetchLog[i].end_date, fetchLog[i].start_date) =>
               /\ filtered \in {None, Some(<<>>)}
               /\ ( /\ pc = "exited"
                    /\ fetchResponse # None
                    /\ Val(fetchResponse).kind \in {"json", "nocontent", "error"} ) =>
                      NothingToReport

\* C5: with a project id configured (a value that parses as a number) the entries
\* that go on to the report are exactly the fetched entries of that project; with
\* none configured every fetched entry goes on.
C5_ProjectFilter ==
    filtered # None =>
        LET OfProject(id) ==
                LET Is(entry) == entry.project_id = Some(id) IN SelectSeq(Fetched, Is)
        IN  /\ env.TOGGL_PROJECT_ID = Some("7") => Val(filtered) = OfProject(7)
            /\ env.TOGGL_PROJECT_ID = Some("0") => Val(filtered) = OfProject(0)
            /\ env.TOGGL_PROJECT_ID = None => Val(filtered) = Fetched

-----------------------------------------------------------------------------
(* The functions *)

\* C6: the rounding policy gives 0 for seconds <= 0 and, for seconds > 0, the
\* nearest multiple of 300 (a half goes up) raised to 300 when that is 0: a
\* multiple of 300 that is at least 300; rounding its result again changes nothing.
C6_RoundingPolicy ==
    call.fn = "roundToNearestFiveMinutes" =>
        LET seconds == call.seconds
            r == call.result
        IN  /\ seconds <= 0 => r = 0
            /\ seconds > 0 =>
                   /\ r % 300 = 0
                   /\ r >= 300
                   /\ \E k \in 0..(seconds \div 300 + 1) :
                         /\ 300 * k - 150 <= seconds
                         /\ seconds < 300 * k + 150
                         /\ r = IF k = 0 THEN 300 ELSE 300 * k
            /\ roundToNearestFiveMinutes(r) = r

\* 100 seconds are nearer to 0 than to 300 and are reported as 300
C6_Witness ==
    /\ call.fn = "roundToNearestFiveMinutes"
    /\ call.seconds = 100
    /\ call.result = 300

\* C7: summarizeByTag gives one total per distinct tag seen, the sum of the rounded
\* durations of the entries carrying the tag (the whole duration under each tag of
\* an entry), and the entries without tags count, whole, under the one group
\* "(no label)", whose total is theirs; the rounded duration of an entry is the one
\* the call reads for it.
C7_LabelTotals ==
    call.fn = "summarizeByTag" =>
        LET es == call.entries
            res == call.result
            rounded == RoundedOf(es, call.clock)
            seen == UNION {TagSet(es[i]) : i \in 1..Len(es)}
            untagged == {i \in 1..Len(es) : TagSet(es[i]) = {}}
        IN  /\ {res[k].name : k \in 1..Len(res)}
                   = seen \cup (IF untagged = {} THEN {} ELSE {"(no label)"})
            /\ \A k, l \in 1..Len(res) : res[k].name = res[l].name => k = l
            /\ \A k \in 1..Len(res) :
                   /\ res[k].name \in seen =>
                          res[k].seconds =
                              SumOver({i \in 1..Len(es) : res[k].name \in TagSet(es[i])},
                                      rounded)
                   /\ (res[k].name = "(no label)" /\ untagged # {}) =>
                          res[k].seconds = SumOver(untagged, rounded)

\* C8: the grand total is the sum of the rounded durations of the entries, each
\* counted once, and is never more than the sum of the label totals.
C8_GrandTotal ==
    call.fn = "buildReport" =>
        LET es == call.entries
            tags == call.result.todayTags
            labelSum == SumOver(1..Len(tags), [k \in 1..Len(tags) |-> tags[k].seconds])
            \* the clock as totalRoundedSeconds finds it, after the reads of summarizeByTag
            k == 1 + Cardinality({j \in 1..Len(es) : TakenFromClock(es[j])})
            clock == IF k <= Len(call.clock)
                     THEN SubSeq(call.clock, k, Len(call.clock))
                     ELSE <<call.clock[Len(call.clock)]>>
        IN  /\ call.result.todayTotal = SumOver(1..Len(es), RoundedOf(es, clock))
            /\ call.result.todayTotal <= labelSum

\* C9: entryDurationSeconds gives 0 for an absent record; the duration itself when
\* it is >= 0, whatever the start; for a negative or absent duration and a start
\* that parses to a valid instant, max(0, floor(now - start)) in whole seconds,
\* which does not decrease as now increases; and 0 when the start is missing or
\* does not parse.
C9_DurationCalculator ==
    call.fn = "entryDurationSeconds" =>
        LET entry == call.entry
            Elapsed(t, start) ==
                LET whole == (t.s - start.s) - (IF t.ms < start.ms THEN 1 ELSE 0)
                IN  IF whole < 0 THEN 0 ELSE whole
        IN  IF entry = NullEntry THEN call.result = 0
            ELSE IF entry.duration # None /\ Val(entry.duration) >= 0
                 THEN call.result = Val(entry.duration)
            ELSE IF entry.start # None /\ Val(entry.start).valid
                 THEN /\ call.result = Elapsed(call.clock[1], Val(entry.start).at)
                      /\ \A t1, t2 \in FnClockReadings :
                            Before(t1, t2) =>
                                entryDurationSeconds(entry, <<t1>>)
                                    <= entryDurationSeconds(entry, <<t2>>)
            ELSE call.result = 0

\* C10: the label totals and the description totals come in descending order of
\* seconds, equal totals in the order their label or description was first seen;
\* the report shows the label headings in the order of the label totals and, under
\* each, one bullet per description of the label's entries, in descending order of
\* the seconds shown, equal ones in the order the descriptions were first seen.
C10_Ordering ==
    /\ call.fn = "summarizeByTag" =>
           \A k, l \in 1..Len(call.result) :
               k < l =>
                   \/ call.result[k].seconds > call.result[l].seconds
                   \/ /\ call.result[k].seconds = call.result[l].seconds
                      /\ SeenBefore(FirstSeenLabel(call.entries, call.result[k].name),
                                    FirstSeenLabel(call.entries, call.result[l].name))
    /\ call.fn = "aggregateByDescription" =>
           \A k, l \in 1..Len(call.result) :
               k < l =>
                   \/ call.result[k].seconds > call.result[l].seconds
                   \/ /\ call.result[k].seconds = call.result[l].seconds
                      /\ FirstSeenDescription(call.entries, call.result[k].description)
                            < FirstSeenDescription(call.entries, call.result[l].description)
    /\ (call.fn = "buildReport" /\ Len(call.entries) > 0) =>
           LET body == call.result.message.body
               tags == call.result.todayTags
               IsHeading(i) == body[i].kind = "heading"
               IsBullet(line) == line.kind = "bullet"
               at == SelectSeq([i \in 1..Len(body) |-> i], IsHeading)
               Under(name) ==
                   LET Counts(entry) == \/ name \in TagSet(entry)
                                        \/ name = "(no label)" /\ TagSet(entry) = {}
                   IN  SelectSeq(call.entries, Counts)
               BulletsOf(k) ==
                   SelectSeq(SubSeq(body, at[k] + 1,
                                    IF k < Len(at) THEN at[k + 1] - 1 ELSE Len(body)),
                             IsBullet)
           IN  /\ Len(at) = Len(tags)
               /\ \A k \in 1..Len(at) :
                      /\ body[at[k]].text = tags[k].name
                      /\ LET under == Under(tags[k].name)
                             bullets == BulletsOf(k)
                         IN  /\ {bullets[b].text : b \in 1..Len(bullets)}
                                    = {DescriptionOf(under[i]) : i \in 1..Len(under)}
                             /\ \A b, c \in 1..Len(bullets) :
                                    b < c =>
                                        \/ ShownSeconds(bullets[b].duration)
                                               > ShownSeconds(bullets[c].duration)
                                        \/ /\ ShownSeconds(bullets[b].duration)
                                                  = ShownSeconds(bullets[c].duration)
                                           /\ FirstSeenDescription(under, bullets[b].text)
                                                  < FirstSeenDescription(under, bullets[c].text)

\* two labels with the same total, listed in the order they were first seen, after
\* a label with a larger one
C10_Witness ==
    /\ call.fn = "summarizeByTag"
    /\ Len(call.result) = 3
    /\ call.result[1].seconds > call.result[2].seconds
    /\ call.result[2].seconds = call.result[3].seconds
    /\ call.result[2].name = "(no label)"
    /\ call.result[3].name = "ops"

====
